---- MODULE Spec2Model ----
(***************************************************************************)
(* Model of src/app.py, the UK House Price Index dashboard script.         *)
(*                                                                         *)
(* The script is run top to bottom on every user interaction: it loads    *)
(* the CSV (load_data, cached by st.cache_data), resolves the region      *)
(* pickers, reads the date range, filters and sorts the table, derives    *)
(* the latest snapshot and renders two charts and the metrics.            *)
(*                                                                         *)
(* Representation                                                          *)
(*   text of a numeric cell   sequence of one-character strings            *)
(*   text of a Date cell      sequence of the numbers between the "/"      *)
(*                            <<d, m, y>> is "d/m/y"; <<>> the empty cell  *)
(*   float64 value            <<v>>, v in tenths, or NaN == <<>>           *)
(*   Timestamp                <<year, month, day>> or NaT == <<>>          *)
(*   DataFrame                sequence of rows, each with its index label  *)
(***************************************************************************)
EXTENDS Integers, Sequences, FiniteSets, TLC

VARIABLES
    csv,               \* the file "UK-HPI-full-Shorted 2.csv" as read_csv finds it
    cache,             \* st.cache_data's stored return value of load_data
    pc,                \* position of the script run
    df,                \* global df
    selected_parent,
    available_sub_regions,
    selected_region,
    start_date,
    end_date,
    filtered_df,
    latest_date,
    latest_data_row,
    shown              \* what the run has put on the page

vars == <<csv, cache, pc, df, selected_parent, available_sub_regions,
          selected_region, start_date, end_date, filtered_df, latest_date,
          latest_data_row, shown>>

----------------------------------------------------------------------------
(* Bounds of the model *)

\* rows of a CSV file in the dashboard runs
MaxRows == 2

\* rows of a CSV file in the runs that exercise the loader's date parsing
MaxDateRows == 1

\* characters of a numeric cell's text in the loader runs
MaxTextLen == 3

----------------------------------------------------------------------------
(* Missing values *)

NaN == <<>>

NaT == <<>>

\* a missing RegionName after read_csv (a float NaN in an object column)
NoRegion == "<NA>"

\* Python's None (st.selectbox over an empty list of options)
None == "<None>"

\* pd.isna of a float or a Timestamp
isna(val) == val = NaN

----------------------------------------------------------------------------
(* Region hierarchy *)

\* The well-formed entries of the REGION_MAPPING literal: "London", the first
\* "South East" list and the catch-all key.
REGION_MAPPING ==
    ( "London" :>
        << "London", "Barking and Dagenham", "Barnet", "Bexley", "Brent", "Bromley",
           "Camden", "City of London", "City of Westminster", "Croydon", "Ealing",
           "Enfield", "Greenwich", "Hackney", "Hammersmith and Fulham", "Haringey",
           "Harrow", "Havering", "Hillingdon", "Hounslow", "Islington",
           "Kensington and Chelsea", "Kingston upon Thames", "Lambeth", "Lewisham",
           "Merton", "Newham", "Redbridge", "Richmond upon Thames", "Southwark",
           "Sutton", "Tower Hamlets", "Waltham Forest", "Wandsworth" >> )
    @@ ( "South East" :>
        << "Brighton and Hove", "Buckinghamshire", "East Sussex", "Hampshire",
           "Isle of Wight", "Kent", "Medway", "Milton Keynes", "Oxfordshire",
           "Portsmouth", "Reading", "Slough", "Southhampton", "Surrey",
           "West Berkshire", "West Sussex", "Windsor and Maidenhead", "Wokingham" >> )
    @@ ( "All Regions (A-Z)" :> << >> )

\* list(REGION_MAPPING.keys())
parent_options == DOMAIN REGION_MAPPING

----------------------------------------------------------------------------
(* Python str ordering: lexicographic on code points *)

\* code points of the region names that occur in the modelled files
CodePoints ==
    [ London |-> <<76, 111, 110, 100, 111, 110>>,
      Barnet |-> <<66, 97, 114, 110, 101, 116>>,
      Leeds  |-> <<76, 101, 101, 100, 115>> ]

RECURSIVE SeqLess(_, _)
SeqLess(a, b) ==
    IF a = <<>> THEN b # <<>>
    ELSE IF b = <<>> THEN FALSE
    ELSE IF Head(a) # Head(b) THEN Head(a) < Head(b)
    ELSE SeqLess(Tail(a), Tail(b))

StrLess(s, t) == SeqLess(CodePoints[s], CodePoints[t])

\* sorted(names): ascending list of a set of str
RECURSIVE sorted(_)
sorted(S) ==
    IF S = {} THEN <<>>
    ELSE LET least == CHOOSE s \in S : \A t \in S \ {s} : StrLess(s, t)
         IN  <<least>> \o sorted(S \ {least})

Range(s) == {s[i] : i \in DOMAIN s}

----------------------------------------------------------------------------
(* The CSV file and pandas' conversions *)

numeric_cols ==
    << "AveragePrice", "12m%Change",
       "SemiDetachedPrice", "TerracedPrice", "FlatPrice",
       "FTBPrice", "FTBIndex", "FTB12m%Change" >>

NumericCols == Range(numeric_cols)

\* the columns the script reads
Columns == {"RegionName", "Date"} \cup NumericCols

Fields == Columns \cup {"index"}

DigitChars == {"0", "1", "2", "3", "4", "5", "6", "7", "8", "9"}

\* cell texts read_csv takes for a missing value (its default na_values), as far
\* as the modelled files use them
NaRegionTexts == {"", "NA"}

DigitValue ==
    [ c \in DigitChars |->
        CASE c = "0" -> 0 [] c = "1" -> 1 [] c = "2" -> 2 [] c = "3" -> 3
          [] c = "4" -> 4 [] c = "5" -> 5 [] c = "6" -> 6 [] c = "7" -> 7
          [] c = "8" -> 8 [] c = "9" -> 9 ]

IsDigits(t) == \A i \in DOMAIN t : t[i] \in DigitChars

RECURSIVE DigitsValue(_)
DigitsValue(t) ==
    IF t = <<>> THEN 0
    ELSE 10 * DigitsValue(SubSeq(t, 1, Len(t) - 1)) + DigitValue[t[Len(t)]]

\* The decimal literals both read_csv's column inference and pd.to_numeric
\* accept: an optional "-", digits, optionally "." and more digits, with at
\* least one digit.  Floats are kept in tenths: the modelled files write at
\* most one decimal, so no value is cut.
Unsigned(t) == IF t # <<>> /\ Head(t) = "-" THEN Tail(t) ELSE t

DotAt(t) ==
    IF \E i \in DOMAIN t : t[i] = "."
    THEN CHOOSE i \in DOMAIN t : t[i] = "." /\ \A j \in 1..(i - 1) : t[j] # "."
    ELSE Len(t) + 1

\* pd.to_numeric(text, errors='coerce') of one str: the float, in tenths, or NaN
to_numeric(t) ==
    LET u      == Unsigned(t)
        dot    == DotAt(u)
        int    == SubSeq(u, 1, dot - 1)
        frac   == SubSeq(u, dot + 1, Len(u))
        mag    == 10 * DigitsValue(int)
                  + (IF frac = <<>> THEN 0 ELSE DigitValue[Head(frac)])
    IN  IF IsDigits(int) /\ IsDigits(frac) /\ Len(int) + Len(frac) > 0
        THEN <<IF u # t THEN 0 - mag ELSE mag>>
        ELSE NaN

IsNumberText(t) == to_numeric(t) # NaN

NumberValue(t) == to_numeric(t)[1]

\* .astype(str) of one cell of an object column: a missing cell becomes "nan"
astype_str(cell) == IF cell = NaN THEN <<"n", "a", "n">> ELSE cell

\* variant: the separators are left in the text
remove_nothing(t) == t

\* .str.replace(',', '') of one str
remove_commas(t) == SelectSeq(t, LAMBDA c : c # ",")

\* calendar
IsLeap(y) == (y % 4 = 0 /\ y % 100 # 0) \/ y % 400 = 0

DaysInMonth(m, y) ==
    IF m = 2 THEN (IF IsLeap(y) THEN 29 ELSE 28)
    ELSE IF m \in {4, 6, 9, 11} THEN 30 ELSE 31

\* pd.to_datetime(text, format='%d/%m/%Y', errors='coerce') of one cell: the text
\* must be exactly day/month/four-digit year and name a day of the calendar
\* (all years of the modelled files lie within Timestamp's range)
to_datetime(t) ==
    IF /\ Len(t) = 3
       /\ t[3] \in 1000..9999
       /\ t[2] \in 1..12
       /\ t[1] \in 1..31
       /\ t[1] <= DaysInMonth(t[2], t[3])
    THEN <<t[3], t[2], t[1]>>
    ELSE NaT

\* Timestamp comparison
DateLeq(a, b) ==
    \/ a[1] < b[1]
    \/ a[1] = b[1] /\ a[2] < b[2]
    \/ a[1] = b[1] /\ a[2] = b[2] /\ a[3] <= b[3]

----------------------------------------------------------------------------
(* load_data *)

\* A file is [readable, columns, rows]: whether read_csv can read it, the
\* columns its header names, and its records, each a function from Columns to
\* the cell's text.

\* read_csv infers a column of number texts and empty cells as numeric, any
\* other column, and every column of a file without records, as object (str)
column_dtype(file, col) ==
    IF /\ file.rows # <<>>
       /\ \A i \in DOMAIN file.rows :
              file.rows[i][col] = <<>> \/ IsNumberText(file.rows[i][col])
    THEN "float64"
    ELSE "object"

\* df[col].dtype of every numeric column after read_csv
dtypes(file) == [c \in NumericCols |-> column_dtype(file, c)]

\* one cell as read_csv stores it in a column of the given dtype
read_cell(dtype, col, t) ==
    IF col = "RegionName" THEN (IF t \in NaRegionTexts THEN NoRegion ELSE t)
    ELSE IF col = "Date" THEN t
    ELSE IF t = <<>> THEN NaN
    ELSE IF dtype = "float64" THEN <<NumberValue(t)>>
    ELSE t

\* pd.read_csv: the frame, its rows labelled 0, 1, ... in file order
read_csv(file) ==
    LET dtype == dtypes(file)
    IN  [ i \in DOMAIN file.rows |->
            [ c \in Fields |->
                IF c = "index" THEN i - 1
                ELSE read_cell(IF c \in DOMAIN dtype THEN dtype[c] ELSE "object",
                               c, file.rows[i][c]) ] ]

\* variant: only a missing Date drops a record
dropna_subset_date_only == {"Date"}

\* the subset of df.dropna
dropna_subset == {"Date", "RegionName"}

IsMissing(row, col) ==
    IF col = "RegionName" THEN row[col] = NoRegion ELSE isna(row[col])

\* df.dropna(subset=...)
dropna(rows, subset) ==
    SelectSeq(rows, LAMBDA r : \A c \in subset : ~IsMissing(r, c))

\* the body of the loop over numeric_cols, for one cell of column col
coerce_cell(dtype, cell) ==
    IF dtype = "object"
    THEN to_numeric(remove_commas(astype_str(cell)))
    ELSE cell

\* the exception of a failed call
Raised == [raised |-> TRUE, value |-> <<>>]

Returned(v) == [raised |-> FALSE, value |-> v]

\* df['Date'] = pd.to_datetime(df['Date'], format='%d/%m/%Y', errors='coerce')
to_datetime_col(rows) ==
    [ i \in DOMAIN rows |-> [rows[i] EXCEPT !["Date"] = to_datetime(@)] ]

\* the loop over numeric_cols
coerce_cols(dtype, rows) ==
    [ i \in DOMAIN rows |->
        [ c \in DOMAIN rows[i] |->
            IF c \in NumericCols THEN coerce_cell(dtype[c], rows[i][c])
            ELSE rows[i][c] ] ]

\* read_csv or a column lookup raises
load_raises(file) == ~file.readable \/ ~(Columns \subseteq file.columns)

load_data(file) ==
    IF load_raises(file) THEN Raised
    ELSE Returned(coerce_cols(dtypes(file),
                              dropna(to_datetime_col(read_csv(file)), dropna_subset)))

----------------------------------------------------------------------------
(* Sidebar: region pickers and date range *)

\* df['RegionName'].unique()
unique_regions(d) == {d[i]["RegionName"] : i \in DOMAIN d}

\* variant: the static list is offered as it is
mapped_unfiltered(mapped_names, d) == mapped_names

\* [name for name in mapped_names if name in df['RegionName'].unique()]
mapped_in_data(mapped_names, d) ==
    SelectSeq(mapped_names, LAMBDA name : name \in unique_regions(d))

\* variant: no fall back to the full list
resolve_without_fallback(parent, d) ==
    IF parent = "All Regions (A-Z)" THEN sorted(unique_regions(d))
    ELSE mapped_in_data(REGION_MAPPING[parent], d)

\* the if/else that fills available_sub_regions
resolve_sub_regions(parent, d) ==
    IF parent = "All Regions (A-Z)" THEN sorted(unique_regions(d))
    ELSE IF mapped_in_data(REGION_MAPPING[parent], d) = <<>>
         THEN sorted(unique_regions(d))
         ELSE mapped_in_data(REGION_MAPPING[parent], d)

\* whether the sidebar warning "No data found matching the hierarchy" is shown
hierarchy_warning(parent, d) ==
    /\ parent # "All Regions (A-Z)"
    /\ mapped_in_data(REGION_MAPPING[parent], d) = <<>>

Dates(d) == {d[i]["Date"] : i \in DOMAIN d}

\* df['Date'].min() and .max(): NaT on an empty column
min_of(D) == IF D = {} THEN NaT ELSE CHOOSE a \in D : \A b \in D : DateLeq(a, b)

max_of(D) == IF D = {} THEN NaT ELSE CHOOSE a \in D : \A b \in D : DateLeq(b, a)

\* the days the date picker offers in the modelled runs
Calendar == {<<2020, 1, 1>>, <<2020, 2, 1>>, <<2020, 3, 1>>}

\* the days between min_value and max_value
Pickable(d) ==
    IF d = <<>> THEN {}
    ELSE {x \in Calendar : DateLeq(min_of(Dates(d)), x) /\ DateLeq(x, max_of(Dates(d)))}

\* what st.date_input can return: an empty tuple, one day, or two days in order
DateRanges(d) ==
    {<<>>} \cup {<<a>> : a \in Pickable(d)}
           \cup {r \in Pickable(d) \X Pickable(d) : DateLeq(r[1], r[2])}

\* the if/else on len(date_range)
range_start(date_range, d) ==
    IF Len(date_range) = 2 THEN date_range[1] ELSE min_of(Dates(d))

range_end(date_range, d) ==
    IF Len(date_range) = 2 THEN date_range[2] ELSE max_of(Dates(d))

----------------------------------------------------------------------------
(* Filtering and the latest snapshot *)

\* a comparison with NaT is False
DateGeq(a, b) == a # NaT /\ b # NaT /\ DateLeq(b, a)

\* variant: the end date is excluded
in_selection_before_end(row, region, start, end) ==
    /\ row["RegionName"] = region
    /\ DateGeq(row["Date"], start)
    /\ DateGeq(end, row["Date"])
    /\ row["Date"] # end

\* the boolean mask of filtered_df
in_selection(row, region, start, end) ==
    /\ row["RegionName"] = region
    /\ DateGeq(row["Date"], start)
    /\ DateGeq(end, row["Date"])

\* df[mask]: the rows kept, in the table's order
masked(d, region, start, end) ==
    SelectSeq(d, LAMBDA r : in_selection(r, region, start, end))

IndexOrders(n) ==
    {f \in [1..n -> 1..n] : \A i, j \in 1..n : i # j => f[i] # f[j]}

\* .sort_values(by='Date'): the default quicksort is not stable, so rows of one
\* date may come out in any order
sort_values(rows) ==
    { [i \in DOMAIN rows |-> rows[f[i]]] : f \in
        {g \in IndexOrders(Len(rows)) :
            \A i \in 1..(Len(rows) - 1) :
                DateLeq(rows[g[i]]["Date"], rows[g[i + 1]]["Date"])} }

\* variant: the minimum date
earliest(rows) == min_of(Dates(rows))

\* filtered_df['Date'].max()
latest(rows) == max_of(Dates(rows))

\* filtered_df[filtered_df['Date'] == latest_date]
at_date(rows, date) == SelectSeq(rows, LAMBDA r : r["Date"] = date)

----------------------------------------------------------------------------
(* Rendering *)

RECURSIVE Digits(_)
\* the decimal digits of a natural number
Digits(n) ==
    IF n < 10 THEN <<CHOOSE c \in DOMAIN DigitValue : DigitValue[c] = n>>
    ELSE Digits(n \div 10) \o Digits(n % 10)

RECURSIVE Grouped(_)
\* the "," format option: a comma before every group of three digits
Grouped(ds) ==
    IF Len(ds) <= 3 THEN ds
    ELSE Grouped(SubSeq(ds, 1, Len(ds) - 3)) \o <<",">> \o SubSeq(ds, Len(ds) - 2, Len(ds))

Abs(v) == IF v < 0 THEN 0 - v ELSE v

\* a float in tenths rounded to an integer as the format code "f" rounds it:
\* to the nearest, and a tie (exactly .5) to the even neighbour
RoundedMagnitude(v) ==
    LET q == Abs(v) \div 10
        r == Abs(v) % 10
    IN  IF r < 5 THEN q
        ELSE IF r > 5 THEN q + 1
        ELSE IF q % 2 = 0 THEN q ELSE q + 1

Sign(v) == IF v < 0 THEN <<"-">> ELSE <<>>

\* f"{val:,.0f}" behind the pound sign
format_currency(v) == <<"£">> \o Sign(v) \o Grouped(Digits(RoundedMagnitude(v)))

\* f"{val:.1f}%"
format_percent(v) ==
    Sign(v) \o Digits(Abs(v) \div 10) \o <<".">> \o Digits(Abs(v) % 10) \o <<"%">>

\* safe_metric: the st.metric it shows
safe_metric(label, val, is_percent) ==
    IF isna(val)
    THEN [label |-> label, value |-> <<"N", "/", "A">>, delta |-> <<>>,
          delta_color |-> "normal"]
    ELSE IF is_percent
    THEN [label |-> label, value |-> format_percent(val[1]),
          delta |-> format_percent(val[1]),
          delta_color |-> IF val[1] < 0 THEN "normal" ELSE "inverse"]
    ELSE [label |-> label, value |-> format_currency(val[1]), delta |-> <<>>,
          delta_color |-> "normal"]

\* the safe_metric calls of the "Key Metrics" column, in order
key_metrics(row) ==
    << safe_metric("Average Price", row["AveragePrice"], FALSE),
       safe_metric("12m Change", row["12m%Change"], TRUE),
       safe_metric("FTB Price", row["FTBPrice"], FALSE),
       safe_metric("FTB 12m Change", row["FTB12m%Change"], TRUE) >>

\* filtered_df.dropna(subset=['AveragePrice']) as the line chart's points
price_points(rows) ==
    LET kept == dropna(rows, {"AveragePrice"})
    IN  [i \in DOMAIN kept |-> <<kept[i]["Date"], kept[i]["AveragePrice"]>>]

\* pd.DataFrame(type_data).dropna()
df_types(row) ==
    SelectSeq(<< <<"Semi-Detached", row["SemiDetachedPrice"]>>,
                 <<"Terraced", row["TerracedPrice"]>>,
                 <<"Flat", row["FlatPrice"]>> >>,
              LAMBDA t : ~isna(t[2]))

----------------------------------------------------------------------------
(* The files of the dashboard runs *)

\* the numeric cells of a record: one with every value, written with and
\* without separators, and one with cells that are empty or not numbers
FullCells ==
    ( "AveragePrice" :> <<"2", "0", "5", ",", "0", "0", "0">> )
    @@ ( "12m%Change" :> <<"3", ".", "0">> )
    @@ ( "SemiDetachedPrice" :> <<"1", "9", "8", "7", ".", "5">> )
    @@ ( "TerracedPrice" :> <<"1", "8", "0", "0">> )
    @@ ( "FlatPrice" :> <<"1", ",", "5", "0", "0">> )
    @@ ( "FTBPrice" :> <<"1", "7", "0", "0", "0", "0">> )
    @@ ( "FTBIndex" :> <<"1", "0", "5", ".", "3">> )
    @@ ( "FTB12m%Change" :> <<"-", "2", ".", "5">> )

SparseCells ==
    ( "AveragePrice" :> <<>> )
    @@ ( "12m%Change" :> <<"x">> )
    @@ ( "SemiDetachedPrice" :> <<>> )
    @@ ( "TerracedPrice" :> <<"-">> )
    @@ ( "FlatPrice" :> <<>> )
    @@ ( "FTBPrice" :> <<"9", "9", ".", "5">> )
    @@ ( "FTBIndex" :> <<>> )
    @@ ( "FTB12m%Change" :> <<>> )

Record(region, date, cells) ==
    [ c \in Columns |->
        IF c = "RegionName" THEN region ELSE IF c = "Date" THEN date ELSE cells[c] ]

\* records for three regions on two days, and records the loader must drop
DashRecords ==
    { Record(r, d, n) : r \in {"London", "Barnet", "Leeds"},
                        d \in {<<1, 1, 2020>>, <<1, 3, 2020>>},
                        n \in {FullCells, SparseCells} }
    \cup { Record("", <<1, 1, 2020>>, FullCells),
           Record("London", <<30, 2, 2020>>, FullCells),
           Record("Leeds", <<>>, SparseCells) }

SeqsUpTo(S, n) == UNION {[1..k -> S] : k \in 0..n}

\* a readable file with every column
File(rows) == [readable |-> TRUE, columns |-> Columns, rows |-> rows]

\* a file read_csv cannot read, and one whose header lacks a column
BrokenFiles ==
    { [readable |-> FALSE, columns |-> Columns, rows |-> <<>>],
      [readable |-> TRUE, columns |-> Columns \ {"Date"}, rows |-> <<>>] }

----------------------------------------------------------------------------
(* The script run *)

NoCache == [hit |-> FALSE, value |-> <<>>]

BlankPage ==
    [ status |-> "", warning |-> FALSE, error |-> "", line_chart |-> <<>>,
      bar_chart |-> <<>>, info |-> FALSE, metrics |-> <<>> ]

\* the globals of a run that has not assigned them yet
FreshGlobals ==
    /\ df = <<>>
    /\ selected_parent = None
    /\ available_sub_regions = <<>>
    /\ selected_region = None
    /\ start_date = NaT
    /\ end_date = NaT
    /\ filtered_df = <<>>
    /\ latest_date = NaT
    /\ latest_data_row = <<>>
    /\ shown = BlankPage

Init ==
    /\ \/ \E k \in 0..MaxRows : \E rows \in [1..k -> DashRecords] : csv = File(rows)
       \/ csv \in BrokenFiles
    /\ cache = NoCache
    /\ pc = "start"
    /\ FreshGlobals

\* @st.cache_data: the stored value if there is one, else the call, whose
\* return value is stored (an exception is not)
cached_load_data ==
    IF cache.hit THEN Returned(cache.value) ELSE load_data(csv)

\* variant: the except branch shows the error and lets the script go on with an
\* empty table
LoadStepGoesOn ==
    /\ pc = "start"
    /\ \E result \in {cached_load_data} :
           IF result.raised
           THEN /\ pc' = "sidebar"
                /\ df' = <<>>
                /\ shown' = [shown EXCEPT !.status = "Error loading data"]
                /\ UNCHANGED cache
           ELSE /\ pc' = "sidebar"
                /\ df' = result.value
                /\ cache' = [hit |-> TRUE, value |-> result.value]
                /\ shown' = [shown EXCEPT !.status = "Data loaded successfully."]
    /\ UNCHANGED <<csv, selected_parent, available_sub_regions, selected_region,
                   start_date, end_date, filtered_df, latest_date, latest_data_row>>

\* try: df = load_data() ... except: error, st.stop()
LoadStep ==
    /\ pc = "start"
    /\ \E result \in {cached_load_data} :
           IF result.raised
           THEN /\ pc' = "load_failed"
                /\ shown' = [shown EXCEPT !.status = "Error loading data"]
                /\ UNCHANGED <<df, cache>>
           ELSE /\ pc' = "sidebar"
                /\ df' = result.value
                /\ cache' = [hit |-> TRUE, value |-> result.value]
                /\ shown' = [shown EXCEPT !.status = "Data loaded successfully."]
    /\ UNCHANGED <<csv, selected_parent, available_sub_regions, selected_region,
                   start_date, end_date, filtered_df, latest_date, latest_data_row>>

\* the first selectbox and the resolution of available_sub_regions
SelectParent ==
    /\ pc = "sidebar"
    /\ \E parent \in parent_options :
          /\ selected_parent' = parent
          /\ available_sub_regions' = resolve_sub_regions(parent, df)
          /\ shown' = [shown EXCEPT !.warning = hierarchy_warning(parent, df)]
    /\ pc' = "region"
    /\ UNCHANGED <<csv, cache, df, selected_region, start_date, end_date,
                   filtered_df, latest_date, latest_data_row>>

\* the second selectbox: one of its options, None when it has none
SelectRegion ==
    /\ pc = "region"
    /\ IF available_sub_regions = <<>>
       THEN selected_region' = None
       ELSE selected_region' \in Range(available_sub_regions)
    /\ pc' = "dates"
    /\ UNCHANGED <<csv, cache, df, selected_parent, available_sub_regions,
                   start_date, end_date, filtered_df, latest_date,
                   latest_data_row, shown>>

\* st.date_input and the if/else on its result.  On an empty table min_date and
\* max_date are NaT; whether the widget then raises is the framework's, so a run
\* may end there or go on with an empty tuple.
SelectDates ==
    /\ pc = "dates"
    /\ \/ /\ \E date_range \in DateRanges(df) :
                /\ start_date' = range_start(date_range, df)
                /\ end_date' = range_end(date_range, df)
          /\ pc' = "filter"
       \/ /\ df = <<>>
          /\ pc' = "date_input_error"
          /\ UNCHANGED <<start_date, end_date>>
    /\ UNCHANGED <<csv, cache, df, selected_parent, available_sub_regions,
                   selected_region, filtered_df, latest_date, latest_data_row,
                   shown>>

\* variant: the filtered, sorted rows are assigned to df as well
FilterStepOverwrites ==
    /\ pc = "filter"
    /\ filtered_df' \in sort_values(masked(df, selected_region, start_date, end_date))
    /\ df' = filtered_df'
    /\ pc' = "check"
    /\ UNCHANGED <<csv, cache, selected_parent, available_sub_regions,
                   selected_region, start_date, end_date, latest_date,
                   latest_data_row, shown>>

\* filtered_df = df[...].sort_values(by='Date')
FilterStep ==
    /\ pc = "filter"
    /\ filtered_df' \in sort_values(masked(df, selected_region, start_date, end_date))
    /\ pc' = "check"
    /\ UNCHANGED <<csv, cache, df, selected_parent, available_sub_regions,
                   selected_region, start_date, end_date, latest_date,
                   latest_data_row, shown>>

\* variant: no check, the script goes on to the latest snapshot
CheckEmptyMissing ==
    /\ pc = "check"
    /\ pc' = "latest"
    /\ UNCHANGED <<csv, cache, df, selected_parent, available_sub_regions,
                   selected_region, start_date, end_date, filtered_df,
                   latest_date, latest_data_row, shown>>

\* if filtered_df.empty: st.error(...); st.stop()
CheckEmpty ==
    /\ pc = "check"
    /\ IF filtered_df = <<>>
       THEN /\ shown' = [shown EXCEPT !.error = "No data available"]
            /\ pc' = "no_data"
       ELSE /\ pc' = "latest"
            /\ UNCHANGED shown
    /\ UNCHANGED <<csv, cache, df, selected_parent, available_sub_regions,
                   selected_region, start_date, end_date, filtered_df,
                   latest_date, latest_data_row>>

\* latest_date and latest_data_row; .iloc[0] of no rows raises IndexError
LatestStep ==
    /\ pc = "latest"
    /\ latest_date' = latest(filtered_df)
    /\ IF at_date(filtered_df, latest(filtered_df)) = <<>>
       THEN /\ pc' = "IndexError"
            /\ UNCHANGED latest_data_row
       ELSE /\ pc' = "render"
            /\ latest_data_row' = at_date(filtered_df, latest(filtered_df))[1]
    /\ UNCHANGED <<csv, cache, df, selected_parent, available_sub_regions,
                   selected_region, start_date, end_date, filtered_df, shown>>

\* the line chart, the bar chart or its notice, and the key metrics
Render ==
    /\ pc = "render"
    /\ shown' = [shown EXCEPT
                    !.line_chart = price_points(filtered_df),
                    !.bar_chart = df_types(latest_data_row),
                    !.info = (df_types(latest_data_row) = <<>>),
                    !.metrics = key_metrics(latest_data_row)]
    /\ pc' = "done"
    /\ UNCHANGED <<csv, cache, df, selected_parent, available_sub_regions,
                   selected_region, start_date, end_date, filtered_df,
                   latest_date, latest_data_row>>

\* a run has ended: by st.stop(), by an exception or at the end of the script
Ended == pc \in {"load_failed", "date_input_error", "no_data", "IndexError", "done"}

\* any interaction runs the script again from the top; only the cache survives
Rerun ==
    /\ Ended
    /\ pc' = "start"
    /\ df' = <<>>
    /\ selected_parent' = None
    /\ available_sub_regions' = <<>>
    /\ selected_region' = None
    /\ start_date' = NaT
    /\ end_date' = NaT
    /\ filtered_df' = <<>>
    /\ latest_date' = NaT
    /\ latest_data_row' = <<>>
    /\ shown' = BlankPage
    /\ UNCHANGED <<csv, cache>>

Next ==
    \/ LoadStep
    \/ SelectParent
    \/ SelectRegion
    \/ SelectDates
    \/ FilterStep
    \/ CheckEmpty
    \/ LatestStep
    \/ Render
    \/ Rerun

Spec == Init /\ [][Next]_vars

----------------------------------------------------------------------------
(* Runs of the loader over files that vary the Date and RegionName texts *)

\* "d/m/y" around the ends of the months, and texts of another shape
DateTexts ==
    { <<d, m, y>> : d \in {0, 1, 29, 30, 31, 32}, m \in {0, 1, 2, 4, 12, 13},
                    y \in {2020, 2021} }
    \cup { <<>>, <<1, 1>>, <<2020, 1, 1>>, <<1, 1, 20>> }

DateRecords ==
    { Record(r, d, FullCells) : r \in {"London", "", "NA"}, d \in DateTexts }

InitDates ==
    /\ \E k \in 0..MaxDateRows : \E rows \in [1..k -> DateRecords] : csv = File(rows)
    /\ cache = NoCache
    /\ pc = "start"
    /\ FreshGlobals

SpecDates == InitDates /\ [][LoadStep]_vars

----------------------------------------------------------------------------
(* Runs of the loader over files that vary the texts of the numeric columns *)

\* every text of digits and separators up to the bound, and some with a sign,
\* a decimal point or a letter
NumberTexts ==
    SeqsUpTo({"1", ","}, MaxTextLen)
    \cup { <<"x">>, <<"1", "x">>, <<"-", "1", ".", "5">> }

\* the records of a file whose numeric columns all hold the texts, one a record
NumberRows(texts) ==
    [ i \in DOMAIN texts |->
        Record("London", <<1, 1, 2020>>, [c \in NumericCols |-> texts[i]]) ]

InitNumbers ==
    /\ \E k \in 0..MaxRows :
          \E texts \in [1..k -> NumberTexts] : csv = File(NumberRows(texts))
    /\ cache = NoCache
    /\ pc = "start"
    /\ FreshGlobals

SpecNumbers == InitNumbers /\ [][LoadStep]_vars

----------------------------------------------------------------------------
(* Properties *)

\* positions of a run at which available_sub_regions has been resolved
Resolved ==
    pc \in {"region", "dates", "date_input_error", "filter", "check", "no_data",
            "latest", "IndexError", "render", "done"}

\* positions of a run at which the second selectbox has returned
RegionChosen == Resolved /\ pc # "region"

\* positions of a run at which filtered_df has been computed
Filtered == pc \in {"check", "no_data", "latest", "IndexError", "render", "done"}

\* positions of a run at which the latest snapshot has been derived
Derived == pc \in {"render", "done"}

\* C1: once the range filter has run, filtered_df holds exactly the rows of df
\* whose RegionName is the selected region and whose Date lies between
\* start_date and end_date, both ends included, each once, in non-decreasing
\* order of Date.
C1_RangeFilter ==
    Filtered =>
        /\ \A i \in DOMAIN df :
              (\E j \in DOMAIN filtered_df : filtered_df[j] = df[i])
              <=> /\ df[i]["RegionName"] = selected_region
                  /\ DateLeq(start_date, df[i]["Date"])
                  /\ DateLeq(df[i]["Date"], end_date)
        /\ \A j \in DOMAIN filtered_df : \E i \in DOMAIN df : df[i] = filtered_df[j]
        /\ \A j, k \in DOMAIN filtered_df :
              j # k => filtered_df[j]["index"] # filtered_df[k]["index"]
        /\ \A j \in 1..(Len(filtered_df) - 1) :
              DateLeq(filtered_df[j]["Date"], filtered_df[j + 1]["Date"])

\* C1 (witness): a one-day range over a table of two records keeps one of them
C1_Witness ==
    /\ pc = "check"
    /\ Len(df) = 2
    /\ start_date = end_date
    /\ Len(filtered_df) = 1

\* C2: whenever the snapshot has been derived, latest_data_row is one row of
\* filtered_df, latest_date is its date, no row of filtered_df has a later date,
\* and a non-empty filtered_df never makes the derivation raise.
C2_LatestSnapshot ==
    /\ Derived =>
          /\ \E j \in DOMAIN filtered_df : filtered_df[j] = latest_data_row
          /\ latest_data_row["Date"] = latest_date
          /\ \A j \in DOMAIN filtered_df : DateLeq(filtered_df[j]["Date"], latest_date)
    /\ (pc = "IndexError" => filtered_df = <<>>)

\* C2 (witness): the snapshot is derived from a filtered_df in which two
\* different rows carry the latest date
C2_Witness ==
    /\ pc = "render"
    /\ \E j, k \in DOMAIN filtered_df :
          /\ j # k
          /\ filtered_df[j]["Date"] = latest_date
          /\ filtered_df[k]["Date"] = latest_date
          /\ filtered_df[j] # filtered_df[k]

\* C6: an empty filtered_df ends the run at the "No data available" error:
\* the snapshot is derived and the metrics are rendered only from a non-empty
\* filtered_df, and .iloc[0] never raises.
C6_NoDataStops ==
    /\ (Filtered /\ filtered_df = <<>>) =>
          /\ pc \in {"check", "no_data"}
          /\ latest_date = NaT
          /\ shown.metrics = <<>>
          /\ shown.line_chart = <<>>
    /\ pc = "no_data" => (filtered_df = <<>> /\ shown.error = "No data available")
    /\ pc \in {"latest", "render", "done"} => (filtered_df # <<>> /\ shown.error = "")
    /\ pc # "IndexError"

\* C6 (witness): a table with records, and a selection that matches none
C6_Witness ==
    /\ pc = "no_data"
    /\ df # <<>>
    /\ selected_region \in {df[i]["RegionName"] : i \in DOMAIN df}

\* C10: once load_data has returned a table, no step changes the cached table,
\* and df is that table in every run until the script is run again.
C10_TableUnchanged ==
    [][cache.hit => (cache' = cache /\ (df' = cache.value \/ pc' = "start"))]_vars

\* C10 (witness): a table not in date order has been filtered, sorted and
\* rendered, and df is still the table load_data returned
C10_Witness ==
    /\ pc = "done"
    /\ Len(df) = 2
    /\ Len(filtered_df) = 2
    /\ filtered_df # df
    /\ df = cache.value

\* the days of month m of year y, by the calendar
CalendarDays(m, y) ==
    CASE m \in {1, 3, 5, 7, 8, 10, 12} -> 31
      [] m \in {4, 6, 9, 11} -> 30
      [] m = 2 -> IF y \in {2020} THEN 29 ELSE 28
      [] OTHER -> 0

\* a Date text that reads as day/month/year of a day that exists (the years of
\* DateTexts are 2020, a leap year, and 2021)
IsDayMonthYear(t) ==
    /\ Len(t) = 3
    /\ t[3] \in {2020, 2021}
    /\ t[1] >= 1
    /\ t[1] <= CalendarDays(t[2], t[3])

\* the record of the file a row of df was read from
Source(row) == csv.rows[row["index"] + 1]

\* C3: the table load_data returns holds no record whose Date text is empty or
\* is not a day/month/year of the calendar and none whose RegionName is
\* missing; every row has a Timestamp and a region name; and such records
\* never make the load fail.
C3_InvalidRecordsDropped ==
    /\ pc = "sidebar" =>
          \A i \in DOMAIN df :
              /\ IsDayMonthYear(Source(df[i])["Date"])
              /\ Source(df[i])["RegionName"] \notin {"", "NA"}
              /\ df[i]["Date"] # NaT
              /\ df[i]["RegionName"] = Source(df[i])["RegionName"]
              /\ df[i]["RegionName"] # NoRegion
    /\ (csv.readable /\ Columns \subseteq csv.columns) => pc # "load_failed"

\* C3 (witness): a file whose only record is dated 30/2/2020 has been loaded
\* into an empty table
C3_Witness ==
    /\ pc = "sidebar"
    /\ Len(csv.rows) = 1
    /\ csv.rows[1]["Date"] = <<30, 2, 2020>>
    /\ csv.rows[1]["RegionName"] = "London"
    /\ df = <<>>

\* the region names in df
RegionsInData == {df[i]["RegionName"] : i \in DOMAIN df}

\* a list of names in strictly ascending str order, hence without duplicates
Ascending(names) ==
    \A j \in 1..(Len(names) - 1) : StrLess(names[j], names[j + 1])

\* C4: for the catch-all group available_sub_regions is every region name in
\* df, once each, in ascending (code point) order; for another group with a
\* member in df it holds exactly the members of the group's list that are in
\* df.
C4_RegionResolution ==
    Resolved =>
        /\ selected_parent = "All Regions (A-Z)" =>
              /\ Range(available_sub_regions) = RegionsInData
              /\ Ascending(available_sub_regions)
        /\ ( /\ selected_parent # "All Regions (A-Z)"
             /\ Range(REGION_MAPPING[selected_parent]) \cap RegionsInData # {} ) =>
              /\ Range(available_sub_regions)
                   = Range(REGION_MAPPING[selected_parent]) \cap RegionsInData
              /\ ~shown.warning

\* C4 (witness): "London" is chosen over a table that holds a member of the
\* group and a region outside it
C4_Witness ==
    /\ pc = "region"
    /\ selected_parent = "London"
    /\ RegionsInData = {"Barnet", "Leeds"}
    /\ available_sub_regions = <<"Barnet">>

\* a group other than the catch-all with no member in df has been chosen
NoMemberInData ==
    /\ Resolved
    /\ selected_parent # "All Regions (A-Z)"
    /\ Range(REGION_MAPPING[selected_parent]) \cap RegionsInData = {}

\* C5 as claimed: for such a group the list is never empty, it is the full
\* ascending list of the region names in df, and the region selected is a
\* region name in df.
C5_FallbackNeverEmpty ==
    NoMemberInData =>
        /\ available_sub_regions # <<>>
        /\ Range(available_sub_regions) = RegionsInData
        /\ Ascending(available_sub_regions)
        /\ RegionChosen => selected_region \in RegionsInData

\* C5 (amended): for such a group the list is the full ascending list of the
\* region names in df and the warning is shown; if df has a record the list is
\* not empty and the region selected is a region name in df; if df has none
\* the list is empty and the selectbox returns None.
C5_FallbackToFullList ==
    NoMemberInData =>
        /\ Range(available_sub_regions) = RegionsInData
        /\ Ascending(available_sub_regions)
        /\ shown.warning
        /\ df # <<>> =>
              /\ available_sub_regions # <<>>
              /\ RegionChosen => selected_region \in RegionsInData
        /\ df = <<>> =>
              /\ available_sub_regions = <<>>
              /\ RegionChosen => selected_region = None

\* C5 (witness): "South East" is chosen over a table with records, and a
\* region of the fallback list has been selected
C5_Witness ==
    /\ pc = "dates"
    /\ selected_parent = "South East"
    /\ available_sub_regions = <<"Leeds", "London">>
    /\ selected_region = "London"

\* the file cannot be read or lacks a column
FileFails == ~csv.readable \/ ~(Columns \subseteq csv.columns)

\* C7: with a file that cannot be loaded a run shows the error and stops: it
\* never gets past the load, and no table, selection, filter result, snapshot,
\* chart or metric exists.
C7_LoadFailureStops ==
    FileFails =>
        /\ pc \in {"start", "load_failed"}
        /\ pc = "load_failed" => shown.status = "Error loading data"
        /\ ~cache.hit
        /\ df = <<>>
        /\ selected_parent = None
        /\ available_sub_regions = <<>>
        /\ selected_region = None
        /\ filtered_df = <<>>
        /\ latest_date = NaT
        /\ shown.metrics = <<>> /\ shown.line_chart = <<>> /\ shown.bar_chart = <<>>

\* C7 (witness): the run over the unreadable file has stopped at the error
C7_Witness ==
    /\ pc = "load_failed"
    /\ ~csv.readable
    /\ shown.status = "Error loading data"

\* the metrics of section 4.4 and the column each one presents
MetricColumn ==
    ( "Average Price" :> "AveragePrice" )
    @@ ( "12m Change" :> "12m%Change" )
    @@ ( "FTB Price" :> "FTBPrice" )
    @@ ( "FTB Index" :> "FTBIndex" )
    @@ ( "FTB 12m Change" :> "FTB12m%Change" )

NotAvailable == <<"N", "/", "A">>

\* the page shows the metric: as "N/A" if the snapshot's value is missing, as a
\* formatted value if it is present
Presented(label) ==
    \E k \in DOMAIN shown.metrics :
        /\ shown.metrics[k].label = label
        /\ isna(latest_data_row[MetricColumn[label]])
             <=> shown.metrics[k].value = NotAvailable

\* C8 as claimed: a rendered page presents each of the five metrics.
C8_FiveMetricsPresented ==
    pc = "done" => \A label \in DOMAIN MetricColumn : Presented(label)

\* C8 (what the script does): a rendered page presents the four metrics other
\* than the first-time-buyer index, a currency value with the pound sign and a
\* percentage with the percent sign, and has no entry for the index.
C8_FourMetricsPresented ==
    pc = "done" =>
        /\ \A label \in DOMAIN MetricColumn \ {"FTB Index"} : Presented(label)
        /\ \A k \in DOMAIN shown.metrics :
              /\ shown.metrics[k].label # "FTB Index"
              /\ shown.metrics[k].value # NotAvailable =>
                    \/ Head(shown.metrics[k].value) = "£"
                    \/ shown.metrics[k].value[Len(shown.metrics[k].value)] = "%"

\* a text without its separators
Bare(t) == SelectSeq(t, LAMBDA c : c # ",")

\* C9: in the table load_data returns, a numeric cell whose text without its
\* commas is a string of digits holds the number those digits denote, two
\* cells of a column whose texts differ only in commas hold the same value, a
\* cell whose text is no number once the commas are removed is missing, and
\* the load does not fail.
C9_SeparatorsStripped ==
    /\ pc = "sidebar" =>
          \A i \in DOMAIN df : \A c \in Range(numeric_cols) :
              /\ (Bare(Source(df[i])[c]) # <<>> /\ IsDigits(Bare(Source(df[i])[c])))
                    => df[i][c] = <<10 * DigitsValue(Bare(Source(df[i])[c]))>>
              /\ ~IsNumberText(Bare(Source(df[i])[c])) => df[i][c] = NaN
              /\ \A j \in DOMAIN df :
                    Bare(Source(df[i])[c]) = Bare(Source(df[j])[c]) => df[i][c] = df[j][c]
    /\ pc # "load_failed"

\* C9 (witness): a column holding "1,1" and "11" has been loaded as 11 and 11
C9_Witness ==
    /\ pc = "sidebar"
    /\ Len(df) = 2
    /\ Source(df[1])["FTBIndex"] = <<"1", ",", "1">>
    /\ Source(df[2])["FTBIndex"] = <<"1", "1">>
    /\ df[1]["FTBIndex"] = <<110>>
    /\ df[2]["FTBIndex"] = <<110>>

====
